---- MODULE Spec2Model ----
(***************************************************************************)
(* A model of leb.kpal: the shared circular BufferedArray (buffer.py), the *)
(* RingBuffer of raw images (core/buffer.py) and the Core dispatcher with  *)
(* its peripherals (core.py, peripherals.py, plugins/dummy.py).            *)
(*                                                                         *)
(* The three parts do not share state.  Each has its own specification     *)
(* (SpecBuffer, SpecRing, SpecCore) that moves the variables of its part   *)
(* and leaves the others as constructed.                                   *)
(***************************************************************************)
EXTENDS Integers, Sequences, FiniteSets, Bags, TLC

VARIABLES
    region,     \* buffer.py: the shared memory viewed as elements, slot -> value
    arr,        \* buffer.py: the BufferedArray handle (dtype, size, write_idx, writeable)
    ba_log,     \* history: the elements of every successful put, in call order
    ba_call,    \* history: what the last put was handed (too large? other dtype?)
    ba_res,     \* history: how the last put ended ("none" before the first)
    ring,       \* core/buffer.py: the RingBuffer (data: slot -> image data, write_idx)
    rb_log,     \* history: the image of every put, in call order
    rb_ret,     \* history: the value the last RingBuffer.put returned (-1 before the first)
    rb_slot,    \* history: the slot the last RingBuffer.put subscripted (-1 before the first)
    peripherals,\* core.py: Core.peripherals, name -> instance (NoPeripheral: no such key)
    objs,       \* the instances a call still holds after the registry dropped them
    tasks,      \* the suspended coroutines of Core's methods: a bag of frames
    ret,        \* history: the call of a Core method that ended in the last step, if any
    event_queue,\* core.py: Core.event_queue, a queue.Queue (items, unfinished_tasks)
    event_thread,\* core.py: Core.event_thread running event_handler (pc, event)
    handler,    \* core.py: the thread in shutdown_handler, if any (pc)
    ev_log,     \* history: the events put on the queue and those the worker got, in order
    segments,   \* the POSIX shared memory segments, by name (state, nbytes, slots)
    handles,    \* buffer.py: the BufferedArray handles of the processes sharing them
    sh_last,    \* history: the last operation on a shared buffer and how it ended
    rb_made,    \* history: the last RingBuffer(...) call and how it ended
    build_args  \* peripherals.py: a class's MRO and what build_args() returned for it

bufferVars == <<region, arr, ba_log, ba_call, ba_res>>
ringVars == <<ring, rb_log, rb_ret, rb_slot>>
coreVars == <<peripherals, objs, tasks, ret>>
eventVars == <<event_queue, event_thread, handler, ev_log>>
sharedVars == <<segments, handles, sh_last>>
callVars == <<rb_made, build_args>>

(***************************************************************************)
(* Bounds of the exploration.                                              *)
(***************************************************************************)
\* Largest capacity in bytes requested of a general buffer.
MaxCapacity == 6
\* Longest general array handed to put.
MaxItemLen == 4
\* Most elements put into one buffer over a run.
MaxTotal == 10
\* Largest number of images a RingBuffer holds.
MaxRingCapacity == 3
\* Most images put into one RingBuffer over a run.
MaxRingPuts == 4
\* Most coroutines of Core in flight at once.
MaxTasks == 2
\* Most calls of the counter's setter, done or in flight.
MaxCount == 2
\* Most events put on the event queue over a run.
MaxEvents == 4
\* Most shared memory segments created over a run.
MaxSegments == 2
\* Largest capacity in bytes requested of a shared buffer.
MaxSharedCapacity == 3

\* Element values of the general arrays (0 is what fresh shared memory holds).
Values == {1, 2}

(***************************************************************************)
(* Python and NumPy helpers.                                               *)
(***************************************************************************)
\* np.dtype(x).itemsize for the dtypes used.
ItemSize(dt) ==
    CASE dt = "int8" -> 1
      [] dt = "int16" -> 2
      [] dt = "int32" -> 4

DTypes == {"int8", "int16", "int32"}

\* list(range(a, b))
Range(a, b) == IF b > a THEN [k \in 1..(b - a) |-> a + k - 1] ELSE <<>>

\* A Python index into a sequence of length n: negative indexes count from the end.
PyIndex(i, n) == IF i < 0 THEN i + n ELSE i

\* ndarray.nbytes of an array given as [dtype, data].
NBytes(a) == Len(a.data) * ItemSize(a.dtype)

\* The constant array n * [v].
Full(n, v) == [k \in 1..n |-> v]

\* All arrays over S of length at most n.
ArraysUpTo(S, n) == UNION {[1..k -> S] : k \in 0..n}

\* self[indexes] = vals with a list of indexes: element k of vals goes to
\* indexes[k]; a one-element vals is broadcast; any other length mismatch is
\* NumPy's ValueError.
SetIndexes(slots, indexes, vals) ==
    LET n == Cardinality(DOMAIN slots)
        v(k) == IF Len(vals) = 1 THEN vals[1] ELSE vals[k]
        at(j) == {k \in 1..Len(indexes) : PyIndex(indexes[k], n) = j}
        last(j) == CHOOSE k \in at(j) : \A m \in at(j) : m <= k
    IN  IF Len(vals) # Len(indexes) /\ Len(vals) # 1
        THEN [raised |-> "ValueError", slots |-> slots]
        ELSE [raised |-> "none",
              slots |-> [j \in DOMAIN slots |->
                            IF at(j) = {} THEN slots[j] ELSE v(last(j))]]

\* self[a:b] = vals with 0 <= a: the slice is clipped to the array.
SetSlice(slots, a, b, vals) ==
    LET n == Cardinality(DOMAIN slots)
        lo == IF a > n THEN n ELSE a
        hi == IF b > n THEN n ELSE b
    IN  SetIndexes(slots, Range(lo, hi), vals)

(***************************************************************************)
(* buffer.py: BufferedArray                                                *)
(***************************************************************************)
\* Mutant of BytesNeeded: the capacity is not rounded down to whole items.
BytesNeededUnrounded(capacity, dt) ==
    IF capacity < ItemSize(dt)
    THEN [raised |-> "ValueError", num_bytes |-> 0]
    ELSE [raised |-> "none", num_bytes |-> capacity]

\* _bytes_needed(capacity, dtype)
BytesNeeded(capacity, dt) ==
    IF capacity < ItemSize(dt)
    THEN [raised |-> "ValueError", num_bytes |-> 0]
    ELSE [raised |-> "none",
          num_bytes |-> (capacity \div ItemSize(dt)) * ItemSize(dt)]

\* BufferedArray.__new__(capacity, create, dtype): the handle it returns.
BufferedArrayNew(capacity, create, dt) ==
    [dtype |-> dt,
     size |-> BytesNeeded(capacity, dt).num_bytes \div ItemSize(dt),
     write_idx |-> 0,
     writeable |-> create]

\* A fresh shared memory segment of the handle's size: zero-filled.
FreshRegion(a) == [j \in 0..(a.size - 1) |-> 0]

\* Mutant of Validate: the dtype check is missing.
ValidateNoDtype(self, data) ==
    IF NBytes(data) > self.size * ItemSize(self.dtype) THEN "ValueError" ELSE "none"

\* BufferedArray._validate(arr)
Validate(self, data) ==
    IF NBytes(data) > self.size * ItemSize(self.dtype) THEN "ValueError"
    ELSE IF data.dtype # self.dtype THEN "ValueError"
    ELSE "none"

\* Mutant of PutIndexes: the next cursor is not reduced modulo the size.
PutIndexesNoWrap(self, data) ==
    LET n == Len(data.data)
        quotient == (self.write_idx + n) \div self.size
        current_write_idx ==
            IF quotient > 0 THEN self.write_idx - self.size ELSE self.write_idx
    IN  [current |-> current_write_idx, next |-> self.write_idx + n,
         asserted |-> quotient > 0 => current_write_idx < 0]

\* BufferedArray.put, lines 97-106: where the copy starts and the next cursor.
PutIndexes(self, data) ==
    LET n == Len(data.data)
        quotient == (self.write_idx + n) \div self.size
        mod == (self.write_idx + n) % self.size
        current_write_idx ==
            IF quotient > 0 THEN self.write_idx - self.size ELSE self.write_idx
        next_write_idx == IF quotient > 0 THEN mod ELSE self.write_idx + n
    IN  [current |-> current_write_idx, next |-> next_write_idx,
         asserted |-> quotient > 0 => current_write_idx < 0]

\* Mutant of PutCopy: on a wrap the indexes are taken in slot order, so the
\* head segment receives the start of the data and the tail segment its end.
PutCopyHeadFirst(self, slots, data) ==
    LET ix == PutIndexes(self, data)
    IN  IF ix.current < 0
        THEN SetIndexes(slots, Range(0, ix.next) \o Range(self.write_idx, self.size),
                        data.data)
        ELSE SetSlice(slots, ix.current, ix.next, data.data)

\* BufferedArray.put, lines 108-114: the copy of the data into the slots.
PutCopy(self, slots, data) ==
    LET ix == PutIndexes(self, data)
    IN  IF ix.current < 0
        THEN SetIndexes(slots, Range(ix.current, ix.next), data.data)
        ELSE SetSlice(slots, ix.current, ix.next, data.data)

\* Mutant of Writeable: every handle may write.
WriteableAlways(self) == TRUE

\* ndarray.flags.writeable as __new__, line 70, set it: an assignment to an
\* array that is not writeable raises ValueError.
Writeable(self) == self.writeable

\* BufferedArray.put(data): what it raises, the slots and the handle after it.
BufferedArrayPut(self, slots, data) ==
    LET v == Validate(self, data)
        c == PutCopy(self, slots, data)
    IN  IF v # "none" THEN [raised |-> v, slots |-> slots, self |-> self]
        ELSE IF ~PutIndexes(self, data).asserted
        THEN [raised |-> "AssertionError", slots |-> slots, self |-> self]
        ELSE IF ~Writeable(self)
        THEN [raised |-> "ValueError", slots |-> slots, self |-> self]
        ELSE IF c.raised # "none" THEN [raised |-> c.raised, slots |-> slots, self |-> self]
        ELSE [raised |-> "none",
              slots |-> c.slots,
              self |-> [self EXCEPT !.write_idx = PutIndexes(self, data).next]]

\* buffer.py, lines 128-135: the scenario of the module's __main__.
ScenarioCapacity == 16
item1 == [dtype |-> "int16", data |-> <<1, 1, 1, 1, 1>>]
item2 == [dtype |-> "int16", data |-> <<2, 2, 2, 2>>]
item3 == [dtype |-> "int16", data |-> <<3>>]

\* The buffers explored: every general capacity and the scenario's, for 2- and
\* 4-byte elements, where construction succeeds.
Capacities == (1..MaxCapacity) \cup {ScenarioCapacity}
BufferDTypes == {"int16", "int32"}

\* The arrays handed to put.  A buffer that arrays of MaxItemLen elements can
\* overflow is driven with every array over Values; a larger one with the
\* scenario's items.  Every buffer is also handed an array one element too
\* long and arrays of the other dtypes.
Offered(a) ==
    (IF a.size < MaxItemLen
     THEN {[dtype |-> a.dtype, data |-> x] : x \in ArraysUpTo(Values, MaxItemLen)}
     ELSE {item1, item2, item3})
    \cup {[dtype |-> a.dtype, data |-> Full(a.size + 1, 1)]}
    \cup {[dtype |-> d, data |-> Full(n, 1)] :
            d \in DTypes \ {a.dtype}, n \in {1, a.size, 2 * a.size + 1}}

(***************************************************************************)
(* core.py, peripherals.py, plugins/dummy.py: Core and its peripherals     *)
(***************************************************************************)
\* Peripheral names and attribute names handed to Core.  "count" is the
\* attribute of the spec's concurrency test: its getter returns the counter
\* (as the dummy plugin's getters return their field), its setter reads the
\* counter, awaits, and writes back the value incremented.  "nope" is no
\* attribute of the Plugin.
Names == {"a", "b"}
AttributeNames == {"count", "nope"}
PluginAttributes == {"count"}
\* capacity handed to build_peripheral: too small for one int16, and main()'s.
BuildCapacities == {1, 1024}

\* Peripheral.__init__ and Plugin.__init__: a new instance.  nwait and woken
\* are its lock's queue of waiters (its length; whether the first waiter's
\* future is done).  writes is history: the writes the counter's setter has done.
NewPeripheral ==
    [state |-> "PREINIT", locked |-> FALSE, nwait |-> 0, woken |-> FALSE,
     count |-> 0, buffer |-> <<>>, writes |-> 0]

\* No instance: a name that is no key of the registry, an unused place.
NoPeripheral ==
    [state |-> "none", locked |-> FALSE, nwait |-> 0, woken |-> FALSE,
     count |-> 0, buffer |-> <<>>, writes |-> 0]

\* A frame refers to the instance it resolved by ref: 0 is the instance that
\* is registered under the frame's name, k > 0 the k-th instance that was
\* registered under it when the frame resolved it and is no more.
Refs == 1..MaxTasks

NoReturn ==
    [op |-> "none", pname |-> "none", aname |-> "none", at |-> "none",
     raised |-> "none", value |-> 0, writes |-> 0, state |-> "none"]

\* The parts a specification does not move stay as constructed: the scenario's
\* buffer, and a RingBuffer of zeroed slots.
ScenarioBuffer == BufferedArrayNew(ScenarioCapacity, TRUE, "int16")
NoCall == [over_slot |-> FALSE, too_large |-> FALSE, dtype_differs |-> FALSE]

\* queue.Queue(): no items, no unfinished tasks, no size limit.
NewQueue == [items |-> <<>>, unfinished_tasks |-> 0]
\* The thread started on event_handler: about to call event_queue.get().
StartedThread == [pc |-> "get", event |-> "none", raised |-> "none"]
\* Nobody is in shutdown_handler.
NoHandler == [pc |-> "idle"]
NoEvents == [put |-> <<>>, got |-> <<>>]

\* No RingBuffer(...) call yet.
NotMade ==
    [capacity |-> 0, shape |-> <<0, 0>>, dtype |-> "none", raised |-> "none",
     nbytes |-> 0]
\* No class composed, build_args() not called.
NotComposed ==
    [mro |-> <<>>, called |-> FALSE, args |-> {}, warned |-> FALSE, raised |-> "none"]

\* The names shared memory gives the segments created without a name, in the
\* order it gives them; 0 stands for name=None.
SegNames == 1..MaxSegments
\* The processes' variables that can hold a BufferedArray, named in the order
\* in which they are assigned.
Handles == {"h1", "h2"}
\* A name no segment has yet.
NoSegment == [state |-> "none", nbytes |-> 0, slots |-> <<>>]
\* A variable that holds no BufferedArray.
NoBuffer ==
    [state |-> "none", shm |-> 0, dtype |-> "none", size |-> 0, write_idx |-> 0,
     writeable |-> FALSE]
NoOp ==
    [op |-> "none", h |-> "none", raised |-> "none", capacity |-> 0, dtype |-> "none",
     create |-> FALSE, valid |-> FALSE]

InitBuffer ==
    /\ \E capacity \in Capacities, dt \in BufferDTypes :
          /\ BytesNeeded(capacity, dt).raised = "none"
          /\ arr = BufferedArrayNew(capacity, TRUE, dt)
          /\ region = FreshRegion(BufferedArrayNew(capacity, TRUE, dt))
    /\ ba_log = <<>>
    /\ ba_call = NoCall
    /\ ba_res = "none"
    /\ ring = [data |-> [i \in 0..0 |-> <<0, 0>>], write_idx |-> 0]
    /\ rb_log = <<>>
    /\ rb_ret = -1
    /\ rb_slot = -1
    /\ peripherals = [n \in Names |-> NoPeripheral]
    /\ objs = [n \in Names |-> [k \in Refs |-> NoPeripheral]]
    /\ tasks = EmptyBag
    /\ ret = NoReturn
    /\ event_queue = NewQueue
    /\ event_thread = StartedThread
    /\ handler = NoHandler
    /\ ev_log = NoEvents
    /\ segments = [n \in SegNames |-> NoSegment]
    /\ handles = [h \in Handles |-> NoBuffer]
    /\ sh_last = NoOp
    /\ rb_made = NotMade
    /\ build_args = NotComposed

\* arr.put(data)
put(data) ==
    /\ Len(ba_log) + Len(data.data) <= MaxTotal
    /\ LET r == BufferedArrayPut(arr, region, data)
       IN  /\ arr' = r.self
           /\ region' = r.slots
           /\ ba_res' = IF r.raised = "none" THEN "ok" ELSE r.raised
           /\ ba_log' = IF r.raised = "none" THEN ba_log \o data.data ELSE ba_log
    /\ ba_call' = [over_slot |-> NBytes(data) > ItemSize(arr.dtype),
                   too_large |-> NBytes(data) > arr.size * ItemSize(arr.dtype),
                   dtype_differs |-> data.dtype # arr.dtype]

NextBuffer ==
    /\ \E data \in Offered(arr) : put(data)
    /\ UNCHANGED <<ringVars, coreVars, eventVars, sharedVars, callVars>>

(***************************************************************************)
(* core/buffer.py: RingBuffer                                              *)
(***************************************************************************)
\* The shape of the images, (rows, columns), and the pixel values.
ImageShape == <<1, 2>>
Pixels == {1, 2}

\* RawImage: every image of ImageShape, its data row by row.
RawImages ==
    {[data |-> d, pixel_format |-> "MONO16"] :
        d \in [1..(ImageShape[1] * ImageShape[2]) -> Pixels]}

\* What np.ndarray.__new__ without a buffer leaves in a slot: unspecified data.
Uninitialized == {Full(ImageShape[1] * ImageShape[2], v) : v \in {0, 1}}

\* Mutant of NextWriteIdx: the cursor is not advanced.
NextWriteIdxStuck(self) == self.write_idx

\* RingBuffer.put, line 61
NextWriteIdx(self) == (self.write_idx + 1) % Cardinality(DOMAIN self.data)

\* RingBuffer.put(image): the buffer after it, the slot written, the value returned.
RingBufferPut(self, image) ==
    LET written == [self EXCEPT !.data[self.write_idx] = image.data]
        after == [written EXCEPT !.write_idx = NextWriteIdx(written)]
    IN  [self |-> after, slot |-> self.write_idx, ret |-> after.write_idx]

InitRing ==
    /\ \E capacity \in 1..MaxRingCapacity :
          \E d \in [0..(capacity - 1) -> Uninitialized] :
              ring = [data |-> d, write_idx |-> 0]
    /\ rb_log = <<>>
    /\ rb_ret = -1
    /\ rb_slot = -1
    /\ arr = ScenarioBuffer
    /\ region = FreshRegion(ScenarioBuffer)
    /\ ba_log = <<>>
    /\ ba_call = NoCall
    /\ ba_res = "none"
    /\ peripherals = [n \in Names |-> NoPeripheral]
    /\ objs = [n \in Names |-> [k \in Refs |-> NoPeripheral]]
    /\ tasks = EmptyBag
    /\ ret = NoReturn
    /\ event_queue = NewQueue
    /\ event_thread = StartedThread
    /\ handler = NoHandler
    /\ ev_log = NoEvents
    /\ segments = [n \in SegNames |-> NoSegment]
    /\ handles = [h \in Handles |-> NoBuffer]
    /\ sh_last = NoOp
    /\ rb_made = NotMade
    /\ build_args = NotComposed

\* buf.put(image)
ring_put(image) ==
    /\ Len(rb_log) < MaxRingPuts
    /\ LET r == RingBufferPut(ring, image)
       IN  /\ ring' = r.self
           /\ rb_ret' = r.ret
           /\ rb_slot' = r.slot
    /\ rb_log' = Append(rb_log, image)

NextRing ==
    /\ \E image \in RawImages : ring_put(image)
    /\ UNCHANGED <<bufferVars, coreVars, eventVars, sharedVars, callVars>>

\* The keys of Core.peripherals.
Registered == {n \in Names : peripherals[n].state # "none"}

\* Mutant of NameTaken: the name check is missing.
NameNeverTaken(name) == FALSE

\* Core.build_peripheral, line 108: name in self.peripherals
NameTaken(name) == name \in Registered

\* Mutant of ResolveNames: the attribute is not looked up.
ResolveNamesNoAttribute(peripheral_name, attribute_name) ==
    IF peripheral_name \notin Registered
    THEN "KPALPeripheralError"
    ELSE "none"

\* Core.resolve_names(peripheral_name, attribute_name): what it raises; when
\* it raises nothing it returns the registered instance and its attribute.
ResolveNames(peripheral_name, attribute_name) ==
    IF peripheral_name \notin Registered
    THEN "KPALPeripheralError"
    ELSE IF attribute_name \notin PluginAttributes
    THEN "KPALPeripheralError"
    ELSE "none"

\* Mutant of LockAcquire: one lock state shared by all the peripherals.
LockAcquireShared(p) ==
    IF ~(\E n \in Names : peripherals[n].locked) /\ p.nwait = 0
    THEN [pos |-> 0, obj |-> [p EXCEPT !.locked = TRUE]]
    ELSE [pos |-> p.nwait + 1, obj |-> [p EXCEPT !.nwait = @ + 1]]

\* asyncio.Lock.acquire up to its suspension: the lock is taken at once when
\* it is free and nobody waits for it, else the caller queues behind the
\* others (pos is its place in the queue, 0 when it does not wait).
LockAcquire(p) ==
    IF ~p.locked /\ p.nwait = 0
    THEN [pos |-> 0, obj |-> [p EXCEPT !.locked = TRUE]]
    ELSE [pos |-> p.nwait + 1, obj |-> [p EXCEPT !.nwait = @ + 1]]

\* asyncio.Lock.acquire after its suspension: the woken first waiter leaves
\* the queue and takes the lock.
LockResume(p) ==
    [p EXCEPT !.locked = TRUE, !.nwait = @ - 1, !.woken = FALSE]

\* asyncio.Lock.release: frees the lock and wakes the first waiter; releasing a
\* free lock is a RuntimeError.
LockRelease(p) ==
    IF p.locked
    THEN [raised |-> "none", obj |-> [p EXCEPT !.locked = FALSE, !.woken = p.nwait > 0]]
    ELSE [raised |-> "RuntimeError", obj |-> p]

\* Mutant of Acquire: the body is entered without taking the lock.
AcquireSkipped(p) == [pos |-> 0, obj |-> p]

\* Core.get_attribute / Core.set_attribute, lines 123 and 135:
\* await peripheral.lock.acquire()
Acquire(p) == LockAcquire(p)

\* Mutant of ReleaseOnExit: the lock is released only when the body returns.
ReleaseOnReturn(p, raised) ==
    IF raised = "none" THEN LockRelease(p) ELSE [raised |-> "none", obj |-> p]

\* Core.get_attribute / Core.set_attribute, lines 124-127 and 136-139:
\* try: <body> finally: peripheral.lock.release()
ReleaseOnExit(p, raised) == LockRelease(p)

\* Mutant of Register: the peripheral is registered whether or not build raised.
RegisterAlways(registry, name, p, raised) == [registry EXCEPT ![name] = p]

\* Core.build_peripheral, lines 115-117: the registry after the type's build
\* returned the instance p or raised.
Register(registry, name, p, raised) ==
    IF raised = "none" THEN [registry EXCEPT ![name] = p] ELSE registry

\* _init_buffer(capacity): BufferedArray(capacity, create=True), dtype int16.
InitBufferOf(capacity) ==
    IF BytesNeeded(capacity, "int16").raised # "none"
    THEN [raised |-> BytesNeeded(capacity, "int16").raised, buffer |-> <<>>]
    ELSE [raised |-> "none", buffer |-> <<BufferedArrayNew(capacity, TRUE, "int16")>>]

\* How many frames of the bag ts are among the frames S.
NumFrames(ts, S) == BagCardinality([f \in S \cap BagToSet(ts) |-> CopiesIn(f, ts)])

\* f is the frame of an attribute call that resolved instance ref of name n.
On(n, ref, f) == f.op # "build" /\ f.pname = n /\ f.ref = ref

\* The instance a frame refers to.
Obj(f) == IF f.ref = 0 THEN peripherals[f.pname] ELSE objs[f.pname][f.ref]

\* The first unused place for an instance that name n no longer refers to.
FreeRef(n) == CHOOSE k \in Refs :
                 /\ objs[n][k].state = "none"
                 /\ \A j \in Refs : objs[n][j].state = "none" => k <= j

\* The unregistered instances os with those dropped that no frame of ts holds.
Collect(os, ts) ==
    [n \in Names |-> [k \in Refs |->
        IF \E f \in BagToSet(ts) : On(n, k, f) THEN os[n][k] ELSE NoPeripheral]]

\* The writes the counter's setter has done on the instances that exist.
RECURSIVE Sum(_, _)
Sum(S, w) ==
    IF S = {} THEN 0
    ELSE LET x == CHOOSE y \in S : TRUE IN w[x] + Sum(S \ {x}, w)

AllWrites ==
    LET w == [x \in Names \X (0..MaxTasks) |->
                IF x[2] = 0 THEN peripherals[x[1]].writes ELSE objs[x[1]][x[2]].writes]
    IN  Sum(DOMAIN w, w)

InitCore ==
    /\ peripherals = [n \in Names |-> NoPeripheral]
    /\ objs = [n \in Names |-> [k \in Refs |-> NoPeripheral]]
    /\ tasks = EmptyBag
    /\ ret = NoReturn
    /\ event_queue = NewQueue
    /\ event_thread = StartedThread
    /\ handler = NoHandler
    /\ ev_log = NoEvents
    /\ segments = [n \in SegNames |-> NoSegment]
    /\ handles = [h \in Handles |-> NoBuffer]
    /\ sh_last = NoOp
    /\ rb_made = NotMade
    /\ build_args = NotComposed
    /\ arr = ScenarioBuffer
    /\ region = FreshRegion(ScenarioBuffer)
    /\ ba_log = <<>>
    /\ ba_call = NoCall
    /\ ba_res = "none"
    /\ ring = [data |-> [i \in 0..0 |-> <<0, 0>>], write_idx |-> 0]
    /\ rb_log = <<>>
    /\ rb_ret = -1
    /\ rb_slot = -1

\* Frame f's instance becomes p.
Store(f, p) ==
    IF f.ref = 0
    THEN /\ peripherals' = [peripherals EXCEPT ![f.pname] = p]
         /\ objs' = Collect(objs, tasks')
    ELSE /\ objs' = Collect([objs EXCEPT ![f.pname][f.ref] = p], tasks')
         /\ UNCHANGED peripherals

\* Core.get_attribute(pn, an) (op = "get") or Core.set_attribute(pn, an, value)
\* (op = "set"), up to the first suspension: the names are resolved, then the
\* lock is taken or waited for.
attribute_call(op, pn, an) ==
    /\ BagCardinality(tasks) < MaxTasks
    /\ LET Setting == {f \in BagToSet(tasks) : f.op = "set"}
       IN  IF ResolveNames(pn, an) # "none"
           THEN /\ ret' = [NoReturn EXCEPT !.op = op, !.pname = pn, !.aname = an,
                                           !.at = "call", !.raised = ResolveNames(pn, an)]
                /\ UNCHANGED <<peripherals, objs, tasks>>
           ELSE /\ op = "set" =>
                       AllWrites + NumFrames(tasks, Setting) < MaxCount
                /\ LET a == Acquire(peripherals[pn])
                   IN  /\ peripherals' = [peripherals EXCEPT ![pn] = a.obj]
                       /\ tasks' = tasks (+) SetToBag({
                                     [pc |-> IF a.pos = 0 THEN "body" ELSE "waiting",
                                      pos |-> a.pos, op |-> op, pname |-> pn,
                                      ref |-> 0, aname |-> an, capacity |-> 0,
                                      local |-> 0]})
                /\ ret' = NoReturn
                /\ UNCHANGED objs
    /\ UNCHANGED <<bufferVars, ringVars, eventVars, sharedVars, callVars>>

\* The first waiter, woken by a release, resumes in lock.acquire and enters
\* the body; the waiters behind it move up.
lock_resume(f) ==
    /\ f.pc = "waiting"
    /\ f.pos = 1
    /\ Obj(f).woken
    /\ LET MoveUp(g) == IF g.pc = "waiting" /\ On(f.pname, f.ref, g)
                        THEN [g EXCEPT !.pos = @ - 1] ELSE g
       IN  tasks' = BagOfAll(MoveUp, tasks (-) SetToBag({f}))
                       (+) SetToBag({[f EXCEPT !.pc = "body", !.pos = 0]})
    /\ Store(f, LockResume(Obj(f)))
    /\ ret' = NoReturn
    /\ UNCHANGED <<bufferVars, ringVars, eventVars, sharedVars, callVars>>

\* The call of frame f leaves its try block with its instance as p: the lock
\* is released and the call returns value or raises.
Leave(f, p, raised, value) ==
    LET rel == ReleaseOnExit(p, raised)
        how == IF rel.raised # "none" THEN rel.raised ELSE raised
    IN  /\ tasks' = tasks (-) SetToBag({f})
        /\ Store(f, rel.obj)
        /\ ret' = [NoReturn EXCEPT !.op = f.op, !.pname = f.pname, !.aname = f.aname,
                                   !.at = "resume", !.raised = how,
                                   !.value = IF how = "none" THEN value ELSE 0,
                                   !.writes = rel.obj.writes]

\* await attribute.getter(peripheral): the getter returns the field; an
\* accessor may raise.
getter(f) ==
    /\ f.pc = "body"
    /\ f.op = "get"
    /\ \/ /\ f.aname \in PluginAttributes
          /\ Leave(f, Obj(f), "none", Obj(f).count)
       \/ Leave(f, Obj(f), "AccessorError", 0)
    /\ UNCHANGED <<bufferVars, ringVars, eventVars, sharedVars, callVars>>

\* await attribute.setter(peripheral, value): the counter's setter reads the
\* counter and suspends; an accessor may raise.
setter(f) ==
    /\ f.pc = "body"
    /\ f.op = "set"
    /\ \/ /\ f.aname \in PluginAttributes
          /\ tasks' = (tasks (-) SetToBag({f}))
                         (+) SetToBag({[f EXCEPT !.pc = "body2", !.local = Obj(f).count]})
          /\ ret' = NoReturn
          /\ UNCHANGED <<peripherals, objs>>
       \/ Leave(f, Obj(f), "AccessorError", 0)
    /\ UNCHANGED <<bufferVars, ringVars, eventVars, sharedVars, callVars>>

\* The counter's setter resumes and writes back the value it read, incremented.
setter_resume(f) ==
    /\ f.pc = "body2"
    /\ \/ Leave(f, [Obj(f) EXCEPT !.count = f.local + 1, !.writes = @ + 1], "none", 0)
       \/ Leave(f, Obj(f), "AccessorError", 0)
    /\ UNCHANGED <<bufferVars, ringVars, eventVars, sharedVars, callVars>>

\* PeripheralState: the values of the states a build goes through.
StateValue(state) ==
    CASE state = "PREINIT" -> 0
      [] state = "INIT" -> 1
      [] state = "RUNNING" -> 2
      [] state = "ERROR" -> -99

\* Plugin.build, line 63: peripheral._state = PeripheralState.INIT
BuildStarted(p) == [p EXCEPT !.state = "INIT"]

\* Mutant of BuildDone: the state is not set once the buffer is stored.
BuildDoneStateKept(p, buffer) == [p EXCEPT !.buffer = buffer]

\* ProducerMixin.build, line 168, and Plugin.build, line 67: the buffer is
\* stored and peripheral._state = PeripheralState.RUNNING
BuildDone(p, buffer) == [p EXCEPT !.buffer = buffer, !.state = "RUNNING"]

\* The instance a build frame is building: as __init__ left it after line 62
\* of Plugin.build, as line 63 left it once the build is suspended.
Building(f) == IF f.pc = "created" THEN NewPeripheral ELSE BuildStarted(NewPeripheral)

\* Core.build_peripheral(Plugin, name, "hello world", capacity=capacity): the
\* name check; then Plugin.build creates the instance (line 62), which only
\* this frame holds.
build_peripheral(name, capacity) ==
    /\ BagCardinality(tasks) < MaxTasks
    /\ IF NameTaken(name)
       THEN /\ ret' = [NoReturn EXCEPT !.op = "build", !.pname = name, !.at = "call",
                                       !.raised = "KPALPeripheralError"]
            /\ UNCHANGED <<peripherals, objs, tasks>>
       ELSE /\ tasks' = tasks (+) SetToBag({
                          [pc |-> "created", pos |-> 0, op |-> "build", pname |-> name,
                           ref |-> 0, aname |-> "none", capacity |-> capacity,
                           local |-> 0]})
            /\ ret' = NoReturn
            /\ UNCHANGED <<peripherals, objs>>
    /\ UNCHANGED <<bufferVars, ringVars, eventVars, sharedVars, callVars>>

\* Plugin.build, lines 63-65, up to its suspension: the state of the instance
\* becomes INIT and ProducerMixin.build hands _init_buffer to the executor.
build_init(f) ==
    /\ f.pc = "created"
    /\ tasks' = (tasks (-) SetToBag({f})) (+) SetToBag({[f EXCEPT !.pc = "building"]})
    /\ ret' = NoReturn
    /\ UNCHANGED <<peripherals, objs>>
    /\ UNCHANGED <<bufferVars, ringVars, eventVars, sharedVars, callVars>>

\* The executor is done.  If _init_buffer raised, the error leaves
\* ProducerMixin.build, Plugin.build and Core.build_peripheral; else the buffer
\* is stored, the state becomes RUNNING and Core binds the name to the
\* instance.  The calls that resolved the instance the name was bound to keep it.
build_resume(f) ==
    /\ f.pc = "building"
    /\ LET b == InitBufferOf(f.capacity)
           self == IF b.raised # "none"
                   THEN Building(f)
                   ELSE BuildDone(Building(f), b.buffer)
           KeepOld(g) == IF On(f.pname, 0, g) THEN [g EXCEPT !.ref = FreeRef(f.pname)] ELSE g
           Held == {g \in BagToSet(tasks) : On(f.pname, 0, g)}
       IN  /\ peripherals' = Register(peripherals, f.pname, self, b.raised)
           /\ IF peripherals'[f.pname] # peripherals[f.pname] /\ NumFrames(tasks, Held) > 0
              THEN /\ tasks' = BagOfAll(KeepOld, tasks (-) SetToBag({f}))
                   /\ objs' = [objs EXCEPT ![f.pname][FreeRef(f.pname)] = peripherals[f.pname]]
              ELSE /\ tasks' = tasks (-) SetToBag({f})
                   /\ UNCHANGED objs
           /\ ret' = [NoReturn EXCEPT !.op = "build", !.pname = f.pname,
                                      !.at = "resume", !.raised = b.raised,
                                      !.state = self.state]
    /\ UNCHANGED <<bufferVars, ringVars, eventVars, sharedVars, callVars>>

NextCore ==
    \/ \E op \in {"get", "set"}, pn \in Names, an \in AttributeNames :
           attribute_call(op, pn, an)
    \/ \E f \in BagToSet(tasks) : lock_resume(f)
    \/ \E f \in BagToSet(tasks) : getter(f)
    \/ \E f \in BagToSet(tasks) : setter(f)
    \/ \E f \in BagToSet(tasks) : setter_resume(f)
    \/ \E name \in Names, capacity \in BuildCapacities : build_peripheral(name, capacity)
    \/ \E f \in BagToSet(tasks) : build_init(f)
    \/ \E f \in BagToSet(tasks) : build_resume(f)

(***************************************************************************)
(* core.py: the event queue, the event handler thread and shutdown_handler *)
(***************************************************************************)
\* Event and its subclass Shutdown.
Events == {"Event", "Shutdown"}

\* queue.Queue.put / put_nowait on a queue without size limit: never full.
QueuePut(q, event) ==
    [q EXCEPT !.items = Append(@, event), !.unfinished_tasks = @ + 1]

\* Mutant of QueueGet: the newest item is taken.
QueueGetNewest(q) ==
    [event |-> q.items[Len(q.items)],
     queue |-> [q EXCEPT !.items = SubSeq(@, 1, Len(@) - 1)]]

\* queue.Queue.get on a queue that has items: the oldest item leaves it.
QueueGet(q) ==
    [event |-> Head(q.items), queue |-> [q EXCEPT !.items = Tail(@)]]

\* queue.Queue.task_done: one unfinished task less; ValueError when called
\* more often than items were put.
QueueTaskDone(q) ==
    IF q.unfinished_tasks <= 0
    THEN [raised |-> "ValueError", queue |-> q]
    ELSE [raised |-> "none", queue |-> [q EXCEPT !.unfinished_tasks = @ - 1]]

\* Mutant of IsShutdown: no event is taken for a Shutdown.
IsShutdownNever(event) == FALSE

\* event_handler, lines 35-36: case Shutdown()
IsShutdown(event) == event = "Shutdown"

InitEvents ==
    /\ event_queue = NewQueue
    /\ event_thread = StartedThread
    /\ handler = NoHandler
    /\ ev_log = NoEvents
    /\ segments = [n \in SegNames |-> NoSegment]
    /\ handles = [h \in Handles |-> NoBuffer]
    /\ sh_last = NoOp
    /\ rb_made = NotMade
    /\ build_args = NotComposed
    /\ arr = ScenarioBuffer
    /\ region = FreshRegion(ScenarioBuffer)
    /\ ba_log = <<>>
    /\ ba_call = NoCall
    /\ ba_res = "none"
    /\ ring = [data |-> [i \in 0..0 |-> <<0, 0>>], write_idx |-> 0]
    /\ rb_log = <<>>
    /\ rb_ret = -1
    /\ rb_slot = -1
    /\ peripherals = [n \in Names |-> NoPeripheral]
    /\ objs = [n \in Names |-> [k \in Refs |-> NoPeripheral]]
    /\ tasks = EmptyBag
    /\ ret = NoReturn

\* Some thread puts an event on the queue: main's
\* core.event_queue.put(Shutdown()), or a peripheral reporting an event.
submit(event) ==
    /\ Len(ev_log.put) < MaxEvents
    /\ event_queue' = QueuePut(event_queue, event)
    /\ ev_log' = [ev_log EXCEPT !.put = Append(@, event)]
    /\ UNCHANGED <<event_thread, handler>>
    /\ UNCHANGED <<bufferVars, ringVars, coreVars, sharedVars, callVars>>

\* event_handler, line 33: event = event_queue.get(), which blocks while the
\* queue is empty.
handler_get ==
    /\ event_thread.pc = "get"
    /\ event_queue.items # <<>>
    /\ event_queue' = QueueGet(event_queue).queue
    /\ event_thread' = [event_thread EXCEPT !.pc = "match",
                                            !.event = QueueGet(event_queue).event]
    /\ ev_log' = [ev_log EXCEPT !.got = Append(@, QueueGet(event_queue).event)]
    /\ UNCHANGED handler
    /\ UNCHANGED <<bufferVars, ringVars, coreVars, sharedVars, callVars>>

\* event_handler, lines 35-41: a Shutdown is acknowledged and ends the loop,
\* any other event is logged and the loop goes on.
handler_match ==
    /\ event_thread.pc = "match"
    /\ IF IsShutdown(event_thread.event)
       THEN /\ event_queue' = QueueTaskDone(event_queue).queue
            /\ event_thread' = [event_thread EXCEPT
                                  !.pc = "exited",
                                  !.raised = QueueTaskDone(event_queue).raised]
       ELSE /\ event_thread' = [event_thread EXCEPT !.pc = "get"]
            /\ UNCHANGED event_queue
    /\ UNCHANGED <<handler, ev_log>>
    /\ UNCHANGED <<bufferVars, ringVars, coreVars, sharedVars, callVars>>

\* shutdown_handler, line 47: event_queue.put_nowait(Shutdown())
shutdown_put ==
    /\ handler.pc \in {"idle", "returned"}
    /\ Len(ev_log.put) < MaxEvents
    /\ event_queue' = QueuePut(event_queue, "Shutdown")
    /\ ev_log' = [ev_log EXCEPT !.put = Append(@, "Shutdown")]
    /\ handler' = [handler EXCEPT !.pc = "join"]
    /\ UNCHANGED event_thread
    /\ UNCHANGED <<bufferVars, ringVars, coreVars, sharedVars, callVars>>

\* shutdown_handler, line 48: event_thread.join() returns once the thread has
\* ended.
shutdown_join ==
    /\ handler.pc = "join"
    /\ event_thread.pc = "exited"
    /\ handler' = [handler EXCEPT !.pc = "returned"]
    /\ UNCHANGED <<event_queue, event_thread, ev_log>>
    /\ UNCHANGED <<bufferVars, ringVars, coreVars, sharedVars, callVars>>

NextEvents ==
    \/ \E event \in Events : submit(event)
    \/ handler_get
    \/ handler_match
    \/ shutdown_put
    \/ shutdown_join

(***************************************************************************)
(* buffer.py: BufferedArray handles on shared memory, in several processes *)
(***************************************************************************)
SharedDTypes == {"int8", "int16"}

\* The arguments of BufferedArray(capacity, name, create, dtype).  The
\* repository creates its segments without a name (_init_buffer, __main__), so
\* a name is given only to attach.
NewArgs ==
    {a \in [capacity : 0..MaxSharedCapacity, name : {0} \cup SegNames,
            create : BOOLEAN, dtype : SharedDTypes] : a.create => a.name = 0}

\* The name shared memory makes up for a new segment.
FreshName(segs) ==
    CHOOSE n \in SegNames :
        segs[n].state = "none" /\ \A m \in SegNames : segs[m].state = "none" => n <= m

\* shared_memory.SharedMemory(name=name, create=create, size=size): what it
\* raises, the name of the segment and the segments after it.
SharedMemoryNew(segs, name, create, size) ==
    IF create
    THEN [raised |-> "none", name |-> FreshName(segs),
          segments |-> [segs EXCEPT ![FreshName(segs)] =
                          [state |-> "linked", nbytes |-> size, slots |-> <<>>]]]
    ELSE IF name = 0
    THEN [raised |-> "ValueError", name |-> 0, segments |-> segs]
    ELSE IF segs[name].state # "linked"
    THEN [raised |-> "FileNotFoundError", name |-> 0, segments |-> segs]
    ELSE [raised |-> "none", name |-> name, segments |-> segs]

\* BufferedArray.__new__(capacity, name, create, dtype): what it raises, the
\* handle and the segments after it.  A new segment is zero-filled.
BufferedArrayConstruct(segs, capacity, name, create, dt) ==
    LET b == BytesNeeded(capacity, dt)
        shm == SharedMemoryNew(segs, name, create, b.num_bytes)
        obj == BufferedArrayNew(capacity, create, dt)
        failed(e) == [raised |-> e, self |-> NoBuffer, segments |-> segs]
    IN  IF b.raised # "none" THEN failed(b.raised)
        ELSE IF shm.raised # "none" THEN failed(shm.raised)
        ELSE IF obj.size * ItemSize(dt) > shm.segments[shm.name].nbytes
        THEN failed("TypeError")
        ELSE [raised |-> "none",
              self |-> [state |-> "open", shm |-> shm.name, dtype |-> obj.dtype,
                        size |-> obj.size, write_idx |-> obj.write_idx,
                        writeable |-> obj.writeable],
              segments |-> IF create
                           THEN [shm.segments EXCEPT ![shm.name].slots = FreshRegion(obj)]
                           ELSE shm.segments]

\* SharedMemory.unlink(): FileNotFoundError when the name is gone.
Unlink(segs, name) ==
    IF segs[name].state = "linked"
    THEN [raised |-> "none", segments |-> [segs EXCEPT ![name].state = "unlinked"]]
    ELSE [raised |-> "FileNotFoundError", segments |-> segs]

\* Mutant of Caught: close has no except clause.
CaughtNothing(raised) == FALSE

\* BufferedArray.close, line 86: except FileNotFoundError
Caught(raised) == raised = "FileNotFoundError"

\* BufferedArray.close(): SharedMemory.close() unmaps the segment and does
\* nothing when that is done already; the handle that created the segment then
\* unlinks it.
BufferedArrayClose(self, segs) ==
    LET u == Unlink(segs, self.shm)
    IN  IF ~self.writeable
        THEN [raised |-> "none", self |-> [self EXCEPT !.state = "closed"],
              segments |-> segs]
        ELSE [raised |-> IF Caught(u.raised) THEN "none" ELSE u.raised,
              self |-> [self EXCEPT !.state = "closed"],
              segments |-> u.segments]

\* The arrays handed to put on a shared buffer.
SharedOffered(self) ==
    {[dtype |-> d, data |-> Full(n, 1)] : d \in SharedDTypes, n \in 0..(self.size + 1)}

InitShared ==
    /\ segments = [n \in SegNames |-> NoSegment]
    /\ handles = [h \in Handles |-> NoBuffer]
    /\ sh_last = NoOp
    /\ rb_made = NotMade
    /\ build_args = NotComposed
    /\ arr = ScenarioBuffer
    /\ region = FreshRegion(ScenarioBuffer)
    /\ ba_log = <<>>
    /\ ba_call = NoCall
    /\ ba_res = "none"
    /\ ring = [data |-> [i \in 0..0 |-> <<0, 0>>], write_idx |-> 0]
    /\ rb_log = <<>>
    /\ rb_ret = -1
    /\ rb_slot = -1
    /\ peripherals = [n \in Names |-> NoPeripheral]
    /\ objs = [n \in Names |-> [k \in Refs |-> NoPeripheral]]
    /\ tasks = EmptyBag
    /\ ret = NoReturn
    /\ event_queue = NewQueue
    /\ event_thread = StartedThread
    /\ handler = NoHandler
    /\ ev_log = NoEvents

\* h = BufferedArray(capacity, name, create, dtype) in some process
new(h, a) ==
    /\ handles[h].state = "none"
    /\ h = "h2" => handles["h1"].state # "none"
    /\ a.create => \E n \in SegNames : segments[n].state = "none"
    /\ LET r == BufferedArrayConstruct(segments, a.capacity, a.name, a.create, a.dtype)
       IN  /\ segments' = r.segments
           /\ handles' = [handles EXCEPT ![h] = r.self]
           /\ sh_last' = [NoOp EXCEPT !.op = "new", !.h = h, !.raised = r.raised,
                                      !.capacity = a.capacity, !.dtype = a.dtype,
                                      !.create = a.create]
    /\ UNCHANGED <<bufferVars, ringVars, coreVars, eventVars, callVars>>

\* h.put(data); valid records whether _validate accepted the data.  Through a
\* closed handle a put that copies elements writes to
\* memory that is no longer mapped, which kills the process.
shared_put(h, data) ==
    /\ handles[h].state \in {"open", "closed"}
    /\ LET r == BufferedArrayPut(handles[h], segments[handles[h].shm].slots, data)
           killed == r.raised = "none" /\ handles[h].state = "closed" /\ Len(data.data) > 0
       IN  /\ segments' = IF killed THEN segments
                          ELSE [segments EXCEPT ![handles[h].shm].slots = r.slots]
           /\ handles' = [handles EXCEPT ![h] =
                            IF killed THEN [@ EXCEPT !.state = "killed"] ELSE r.self]
           /\ sh_last' = [NoOp EXCEPT !.op = "put", !.h = h,
                                      !.raised = IF killed THEN "SIGSEGV" ELSE r.raised,
                                      !.valid = Validate(handles[h], data) = "none"]
    /\ UNCHANGED <<bufferVars, ringVars, coreVars, eventVars, callVars>>

\* h.close(), called by the process or by atexit
close(h) ==
    /\ handles[h].state \in {"open", "closed"}
    /\ LET r == BufferedArrayClose(handles[h], segments)
       IN  /\ segments' = r.segments
           /\ handles' = [handles EXCEPT ![h] = r.self]
           /\ sh_last' = [NoOp EXCEPT !.op = "close", !.h = h, !.raised = r.raised]
    /\ UNCHANGED <<bufferVars, ringVars, coreVars, eventVars, callVars>>

NextShared ==
    \/ \E h \in Handles, a \in NewArgs : new(h, a)
    \/ \E h \in Handles : \E data \in SharedOffered(handles[h]) : shared_put(h, data)
    \/ \E h \in Handles : close(h)

(***************************************************************************)
(* core/buffer.py, core/pixel_format.py: constructing a RingBuffer         *)
(***************************************************************************)
\* PixelFormat: a StrEnum, so its members are the strings "mono12p", "mono16".
PixelFormats == {"mono12p", "mono16"}

\* PixelFormat.bits_per_pixel
BitsPerPixel(pf) == IF pf = "mono12p" THEN 12 ELSE 16

\* np.dtype(dtype): the item size of a NumPy data type; a string that names
\* no data type is a TypeError.
NpDType(dtype) ==
    CASE dtype = "uint16" -> [raised |-> "none", itemsize |-> 2]
      [] dtype = "float" -> [raised |-> "none", itemsize |-> 8]
      [] OTHER -> [raised |-> "TypeError", itemsize |-> 0]

\* RingBuffer.__new__(capacity, shape, dtype): what it raises and the bytes of
\* the array it allocates.
RingBufferNew(capacity, shape, dtype) ==
    IF NpDType(dtype).raised # "none"
    THEN [raised |-> NpDType(dtype).raised, nbytes |-> 0]
    ELSE [raised |-> "none",
          nbytes |-> capacity * shape[1] * shape[2] * NpDType(dtype).itemsize]

\* The capacities, image sides and third arguments of the calls explored:
\* the tests' and small ones.
RingCapacities == (1..MaxRingCapacity) \cup {10}
RingSides == {1, 4, 7, 8, 16}
RingDTypes == PixelFormats \cup {"uint16", "float"}

InitRingNew ==
    /\ rb_made = NotMade
    /\ build_args = NotComposed
    /\ arr = ScenarioBuffer
    /\ region = FreshRegion(ScenarioBuffer)
    /\ ba_log = <<>>
    /\ ba_call = NoCall
    /\ ba_res = "none"
    /\ ring = [data |-> [i \in 0..0 |-> <<0, 0>>], write_idx |-> 0]
    /\ rb_log = <<>>
    /\ rb_ret = -1
    /\ rb_slot = -1
    /\ peripherals = [n \in Names |-> NoPeripheral]
    /\ objs = [n \in Names |-> [k \in Refs |-> NoPeripheral]]
    /\ tasks = EmptyBag
    /\ ret = NoReturn
    /\ event_queue = NewQueue
    /\ event_thread = StartedThread
    /\ handler = NoHandler
    /\ ev_log = NoEvents
    /\ segments = [n \in SegNames |-> NoSegment]
    /\ handles = [h \in Handles |-> NoBuffer]
    /\ sh_last = NoOp

\* RingBuffer(capacity, shape, dtype)
ring_new(capacity, shape, dtype) ==
    /\ rb_made' = [capacity |-> capacity, shape |-> shape, dtype |-> dtype,
                   raised |-> RingBufferNew(capacity, shape, dtype).raised,
                   nbytes |-> RingBufferNew(capacity, shape, dtype).nbytes]
    /\ UNCHANGED build_args
    /\ UNCHANGED <<bufferVars, ringVars, coreVars, eventVars, sharedVars>>

NextRingNew ==
    \E capacity \in RingCapacities, r \in RingSides, c \in RingSides, dtype \in RingDTypes :
        ring_new(capacity, <<r, c>>, dtype)

(***************************************************************************)
(* peripherals.py: Peripheral.build_args                                   *)
(***************************************************************************)
\* The most mixins a peripheral class is composed of.
MaxMixins == 2

\* The parameter names and annotations the build methods declare.  A dict of
\* inspect.Parameter is the set of its [name, annotation] items, one per name.
ParamNames == {"capacity", "msg", "kwargs"}
Annotations == {"int", "str"}
Filtered == {"self", "args", "kwargs", "_"}
Keys(parameters) == {q.name : q \in parameters}

\* The signatures a class's own build method can have; a class may define none.
Signatures ==
    {{[name |-> n, annotation |-> a] : n \in S} : S \in SUBSET ParamNames, a \in Annotations}
Classes(name) ==
    {[name |-> name, has_build |-> FALSE, parameters |-> {}]}
        \cup {[name |-> name, has_build |-> TRUE, parameters |-> sig] : sig \in Signatures}

\* Peripheral.build(cls, *args, **kwargs)
PeripheralClass ==
    [name |-> "Peripheral", has_build |-> TRUE,
     parameters |-> {[name |-> "args", annotation |-> "none"],
                     [name |-> "kwargs", annotation |-> "none"]}]

\* The names of the mixins, in the order of the class statement.
MixinNames == <<"Mixin1", "Mixin2", "Mixin3">>

\* klass.build for the i-th class of the MRO: its own build method, else (the
\* class itself only, which inherits from all the others) the first one
\* defined further along the MRO; a mixin without one has no such attribute.
KlassBuild(mro, i) ==
    IF mro[i].has_build THEN [raised |-> "none", parameters |-> mro[i].parameters]
    ELSE IF i = 1
         THEN LET j == CHOOSE j \in 2..Len(mro) :
                          /\ mro[j].has_build
                          /\ \A k \in 2..(j - 1) : ~mro[k].has_build
              IN  [raised |-> "none", parameters |-> mro[j].parameters]
         ELSE [raised |-> "AttributeError", parameters |-> {}]

\* build_args.update(parameters)
DictUpdate(d, parameters) ==
    {q \in d : q.name \notin Keys(parameters)} \cup parameters

\* The loop of build_args from the i-th class of the MRO on.
RECURSIVE BuildArgsFrom(_, _, _)
BuildArgsFrom(mro, i, acc) ==
    IF i > Len(mro) \/ mro[i].name = "Peripheral" THEN acc
    ELSE IF KlassBuild(mro, i).raised = "AttributeError"
         THEN BuildArgsFrom(mro, i + 1, acc)
         ELSE LET parameters == {q \in KlassBuild(mro, i).parameters : q.name \notin Filtered}
                  duplicates == Keys(parameters) \cap Keys(acc.args)
              IN  BuildArgsFrom(mro, i + 1,
                      [args |-> DictUpdate(acc.args, parameters),
                       warned |-> acc.warned \/ duplicates # {},
                       raised |-> acc.raised])

\* cls.build_args()
BuildArgs(mro) ==
    BuildArgsFrom(mro, 1, [args |-> {}, warned |-> FALSE, raised |-> "none"])

InitBuildArgs ==
    /\ rb_made = NotMade
    /\ \E cls \in Classes("cls") :
          build_args = [NotComposed EXCEPT !.mro = <<cls, PeripheralClass>>]
    /\ arr = ScenarioBuffer
    /\ region = FreshRegion(ScenarioBuffer)
    /\ ba_log = <<>>
    /\ ba_call = NoCall
    /\ ba_res = "none"
    /\ ring = [data |-> [i \in 0..0 |-> <<0, 0>>], write_idx |-> 0]
    /\ rb_log = <<>>
    /\ rb_ret = -1
    /\ rb_slot = -1
    /\ peripherals = [n \in Names |-> NoPeripheral]
    /\ objs = [n \in Names |-> [k \in Refs |-> NoPeripheral]]
    /\ tasks = EmptyBag
    /\ ret = NoReturn
    /\ event_queue = NewQueue
    /\ event_thread = StartedThread
    /\ handler = NoHandler
    /\ ev_log = NoEvents
    /\ segments = [n \in SegNames |-> NoSegment]
    /\ handles = [h \in Handles |-> NoBuffer]
    /\ sh_last = NoOp

\* class cls(Mixin1, ..., Peripheral): one more mixin in the class statement;
\* cls.__mro__ is the class itself, its mixins in that order, Peripheral.
compose(m) ==
    /\ ~build_args.called
    /\ Len(build_args.mro) < MaxMixins + 2
    /\ LET n == Len(build_args.mro)
       IN  build_args' =
               [build_args EXCEPT !.mro = SubSeq(@, 1, n - 1)
                                             \o <<[m EXCEPT !.name = MixinNames[n - 1]]>>
                                             \o <<PeripheralClass>>]
    /\ UNCHANGED rb_made
    /\ UNCHANGED <<bufferVars, ringVars, coreVars, eventVars, sharedVars>>

\* cls.build_args()
call_build_args ==
    /\ ~build_args.called
    /\ build_args' = [mro |-> build_args.mro, called |-> TRUE,
                      args |-> BuildArgs(build_args.mro).args,
                      warned |-> BuildArgs(build_args.mro).warned,
                      raised |-> BuildArgs(build_args.mro).raised]
    /\ UNCHANGED rb_made
    /\ UNCHANGED <<bufferVars, ringVars, coreVars, eventVars, sharedVars>>

NextBuildArgs ==
    \/ \E m \in Classes("Mixin") : compose(m)
    \/ call_build_args

vars == <<region, arr, ba_log, ba_call, ba_res, ring, rb_log, rb_ret, rb_slot,
          peripherals, objs, tasks, ret, event_queue, event_thread, handler, ev_log,
          segments, handles, sh_last, rb_made, build_args>>

SpecBuffer == InitBuffer /\ [][NextBuffer]_vars
SpecRing == InitRing /\ [][NextRing]_vars
SpecCore == InitCore /\ [][NextCore]_vars
SpecEvents == InitEvents /\ [][NextEvents]_vars
SpecShared == InitShared /\ [][NextShared]_vars
SpecRingNew == InitRingNew /\ [][NextRingNew]_vars
SpecBuildArgs == InitBuildArgs /\ [][NextBuildArgs]_vars
\* The operating system schedules every thread that can run.
SpecEventsFair ==
    /\ SpecEvents
    /\ WF_vars(handler_get)
    /\ WF_vars(handler_match)
    /\ WF_vars(shutdown_join)
(***************************************************************************)
(* Claims about BufferedArray.put, checked under SpecBuffer.               *)
(***************************************************************************)
\* The element a slot must hold: the latest element of the log whose offset
\* (from 0, over all puts) is congruent to the slot modulo the size, else 0.
LatestAt(j) ==
    LET hits == {k \in 1..Len(ba_log) : (k - 1) % arr.size = j}
    IN  IF hits = {} THEN 0
        ELSE ba_log[CHOOSE k \in hits : \A m \in hits : m <= k]

IsScenarioBuffer == arr.dtype = "int16" /\ arr.size = 8

\* C1: after any sequence of successful puts into a created buffer, every slot
\* j holds the most recently written element whose global offset is congruent
\* to j modulo the size, and 0 if there is none; with 8 int16 slots, five 1s,
\* then four 2s, then one 3 leave [1,1,1,1,1,0,0,0], [2,1,1,1,1,2,2,2] and
\* [2,3,1,1,1,2,2,2].
C1_SlotsHoldLatest ==
    /\ \A j \in 0..(arr.size - 1) : region[j] = LatestAt(j)
    /\ (IsScenarioBuffer /\ ba_log = item1.data)
          => region = [j \in 0..7 |-> <<1, 1, 1, 1, 1, 0, 0, 0>>[j + 1]]
    /\ (IsScenarioBuffer /\ ba_log = item1.data \o item2.data)
          => region = [j \in 0..7 |-> <<2, 1, 1, 1, 1, 2, 2, 2>>[j + 1]]
    /\ (IsScenarioBuffer /\ ba_log = item1.data \o item2.data \o item3.data)
          => region = [j \in 0..7 |-> <<2, 3, 1, 1, 1, 2, 2, 2>>[j + 1]]

\* C1 witness: the scenario has run to its end (the second put wrapped).
C1_Witness ==
    /\ IsScenarioBuffer
    /\ ba_log = item1.data \o item2.data \o item3.data
    /\ ba_res = "ok"

\* C4 as the spec words it: a put of an item whose byte length is greater than
\* one slot, or whose dtype differs, fails with ValueError.
C4_OverOneSlotFails ==
    (ba_res # "none" /\ (ba_call.over_slot \/ ba_call.dtype_differs))
        => ba_res = "ValueError"

\* C4, amended: a put of an item whose byte length is greater than the whole
\* buffer's, or whose dtype differs from the buffer's, fails with ValueError,
\* and every put that fails with ValueError leaves the write cursor and every
\* slot as they were before the call.
C4_InvalidPutRejected ==
    [][/\ (ba_call'.too_large \/ ba_call'.dtype_differs) => ba_res' = "ValueError"
       /\ ba_res' = "ValueError" => (arr' = arr /\ region' = region)]_vars

\* C4 witness: a put of another dtype that would have fit was rejected by a
\* buffer that already holds data and whose cursor has moved.
C4_Witness ==
    /\ ba_res = "ValueError"
    /\ ba_call.dtype_differs /\ ~ba_call.too_large
    /\ arr.write_idx > 0
    /\ \E j \in DOMAIN region : region[j] # 0

(***************************************************************************)
(* Claims about RingBuffer.put, checked under SpecRing.                    *)
(***************************************************************************)
RingCapacity == Cardinality(DOMAIN ring.data)

\* The 1-based put numbers whose image went to slot i.
PutsAt(i) == {k \in 1..Len(rb_log) : (k - 1) % RingCapacity = i}

\* C2: put never fails because the buffer is full; after N >= 1 puts slot
\* (N-1) mod C holds the N-th image's data and every other slot i holds the
\* data of the last image whose 0-based put number is congruent to i modulo C.
C2_RingHoldsLatest ==
    /\ Len(rb_log) < MaxRingPuts => ENABLED NextRing
    /\ Len(rb_log) >= 1 =>
          /\ ring.data[(Len(rb_log) - 1) % RingCapacity] = rb_log[Len(rb_log)].data
          /\ \A i \in 0..(RingCapacity - 1) :
                PutsAt(i) # {} =>
                    ring.data[i] = rb_log[CHOOSE k \in PutsAt(i) : \A m \in PutsAt(i) : m <= k].data

\* C2 witness: one put more than the capacity has overwritten the oldest image
\* with a different one.
C2_Witness ==
    /\ RingCapacity > 1
    /\ Len(rb_log) = RingCapacity + 1
    /\ rb_log[1].data # rb_log[RingCapacity + 1].data
    /\ ring.data[0] = rb_log[RingCapacity + 1].data

\* C3: the value RingBuffer.put returns is the index of the slot into which
\* the call copied the image.
C3_ReturnsInsertedIndex == rb_ret = rb_slot

(***************************************************************************)
(* Claims about Core and its peripherals, checked under SpecCore.          *)
(***************************************************************************)
\* Every place an instance can be in: registered under a name (0), or held by
\* calls only.
Instances == Names \X (0..MaxTasks)

Inst(x) == IF x[2] = 0 THEN peripherals[x[1]] ELSE objs[x[1]][x[2]]

\* The calls on instance x that are inside their getter or setter body,
\* running or suspended at an await of it.
InBody(x) ==
    LET B == {f \in BagToSet(tasks) : On(x[1], x[2], f) /\ f.pc \in {"body", "body2"}}
    IN  NumFrames(tasks, B)

\* The get/set calls in progress on instance x.
Calls(x) ==
    LET A == {f \in BagToSet(tasks) : On(x[1], x[2], f)}
    IN  NumFrames(tasks, A)

\* C5: at any time at most one getter or setter body of a peripheral is
\* executing or suspended inside its body; so the counter equals the number of
\* setters that have written it (no update is lost), and the value a getter
\* returns is the number of setters completed when it ran.
C5_BodiesNeverInterleave ==
    /\ \A x \in Instances :
          /\ InBody(x) <= 1
          /\ Inst(x).count = Inst(x).writes
    /\ (ret.op = "get" /\ ret.raised = "none") => ret.value = ret.writes

\* C5 witness: a setter that read the counter after an earlier setter wrote it
\* is suspended inside its body while another call waits for the same lock.
C5_Witness ==
    \E f \in BagToSet(tasks) :
        /\ f.pc = "body2"
        /\ f.local = 1
        /\ Obj(f).nwait >= 1
        /\ Obj(f).locked

\* C6: the lock of a peripheral is held only while a get/set call on it is
\* inside its try block; when no call is in progress the lock is free, also
\* after a getter or setter raised.
C6_LockFreeWhenIdle ==
    \A x \in Instances :
        /\ Inst(x).locked => InBody(x) >= 1
        /\ Calls(x) = 0 => ~Inst(x).locked /\ Inst(x).nwait = 0

\* C6 witness: a setter raised inside its body, and its peripheral is
\* registered with no call in progress and the lock free.
C6_Witness ==
    /\ ret.op = "set"
    /\ ret.at = "resume"
    /\ ret.raised = "AccessorError"
    /\ ret.pname \in Registered
    /\ Calls(<<ret.pname, 0>>) = 0
    /\ ~peripherals[ret.pname].locked

\* C7: get_attribute and set_attribute fail at the call with
\* KPALPeripheralError exactly when the peripheral name is not registered or
\* the attribute name is not one of the peripheral's; the failing call changes
\* no lock, no registry entry and starts no getter or setter, and a call that
\* goes on to the lock has resolved both names.
C7_UnknownNamesRejected ==
    [][ /\ (ret'.at = "call" /\ ret'.op \in {"get", "set"}) =>
              /\ ret'.pname \notin Registered \/ ret'.aname \notin PluginAttributes
              /\ ret'.raised = "KPALPeripheralError"
              /\ UNCHANGED <<peripherals, objs, tasks>>
        /\ BagCardinality(tasks') = BagCardinality(tasks) + 1 =>
              \A f \in BagToSet(tasks') :
                  (CopiesIn(f, tasks') > CopiesIn(f, tasks) /\ f.op \in {"get", "set"}) =>
                      f.pname \in Registered /\ f.aname \in PluginAttributes
      ]_vars

\* C7 witness: a set_attribute with an unknown attribute name was rejected
\* while another call holds the lock of that registered peripheral.
C7_Witness ==
    /\ ret.at = "call"
    /\ ret.op = "set"
    /\ ret.raised = "KPALPeripheralError"
    /\ ret.pname \in Registered
    /\ ret.aname \notin PluginAttributes
    /\ peripherals[ret.pname].locked

\* C8: build_peripheral with a name that is a key of the registry fails at
\* the call with KPALPeripheralError; the registry and every instance stay as
\* they are and no build is started; a build is started only for a name that
\* is no key.
C8_DuplicateNameRejected ==
    [][ /\ (ret'.at = "call" /\ ret'.op = "build") =>
              /\ ret'.pname \in Registered
              /\ ret'.raised = "KPALPeripheralError"
              /\ UNCHANGED <<peripherals, objs, tasks>>
        /\ BagCardinality(tasks') = BagCardinality(tasks) + 1 =>
              \A f \in BagToSet(tasks') :
                  (CopiesIn(f, tasks') > CopiesIn(f, tasks) /\ f.op = "build") =>
                      f.pname \notin Registered
      ]_vars

\* C8 witness: a build with the name of a registered peripheral whose counter
\* has been written was rejected.
C8_Witness ==
    /\ ret.at = "call"
    /\ ret.op = "build"
    /\ ret.raised = "KPALPeripheralError"
    /\ peripherals[ret.pname].state = "RUNNING"
    /\ peripherals[ret.pname].count > 0

\* A build_peripheral call ended in the last step because the type's build
\* raised.
BuildFailed == ret.op = "build" /\ ret.at = "resume" /\ ret.raised # "none"

\* C9: when the type's build raises, build_peripheral raises that error, the
\* registry and every registered peripheral (entry, state, lock) are as
\* before, and a build with the same name is accepted if the name is still no
\* key.
C9_FailedBuildNotRegistered ==
    /\ [][ BuildFailed' =>
              /\ ret'.raised = "ValueError"
              /\ UNCHANGED <<peripherals, objs>>
         ]_vars
    /\ [](BuildFailed /\ ret.pname \notin Registered =>
              ENABLED (/\ build_peripheral(ret.pname, 1024)
                       /\ BagCardinality(tasks') = BagCardinality(tasks) + 1))

\* C9 witness: a build failed while a registered peripheral's lock is held by
\* a call.
C9_Witness ==
    /\ BuildFailed
    /\ ret.pname \notin Registered
    /\ \E n \in Registered : peripherals[n].locked /\ InBody(<<n, 0>>) = 1

\* C10: when ProducerMixin.build raises during a build, the state of the
\* peripheral being built is ERROR.
C10_FailedBuildIsError == BuildFailed => ret.state = "ERROR"

(***************************************************************************)
(* Claims about the event handler, checked under SpecEvents and, for what  *)
(* must eventually happen, under SpecEventsFair.                           *)
(***************************************************************************)
\* C11: every call of shutdown_handler returns, and when it has returned the
\* event handler thread has ended: once the call has put its Shutdown and
\* waits in join, the thread eventually takes a Shutdown, leaves its loop and
\* join returns, whatever was queued before, an earlier Shutdown included.
C11_ShutdownHandlerReturns ==
    /\ [](handler.pc = "returned" => event_thread.pc = "exited")
    /\ (handler.pc = "join") ~> (handler.pc = "returned" /\ event_thread.pc = "exited")

\* C11 witness: shutdown_handler has returned although its own Shutdown is
\* still queued: the thread ended on a Shutdown put earlier, after another
\* event.
C11_Witness ==
    /\ handler.pc = "returned"
    /\ event_queue.items = <<"Shutdown">>
    /\ ev_log.got = <<"Event", "Shutdown">>

\* C12: the thread takes the events in the order they were put and skips
\* none; it ends when it has taken a Shutdown and only then, so it takes
\* nothing after its first Shutdown, and everything put before that Shutdown
\* was taken before it.
C12_InOrderUntilShutdown ==
    /\ ev_log.put = ev_log.got \o event_queue.items
    /\ \A i \in 1..(Len(ev_log.got) - 1) : ev_log.got[i] # "Shutdown"
    /\ event_thread.pc = "exited" =>
          Len(ev_log.got) > 0 /\ ev_log.got[Len(ev_log.got)] = "Shutdown"
    /\ (Len(ev_log.got) > 0 /\ ev_log.got[Len(ev_log.got)] = "Shutdown") =>
          event_thread.pc \in {"match", "exited"}
    /\ event_thread.raised = "none"

\* C12 witness: the thread has ended after two other events and a Shutdown,
\* with a later event left on the queue.
C12_Witness ==
    /\ event_thread.pc = "exited"
    /\ ev_log.got = <<"Event", "Event", "Shutdown">>
    /\ event_queue.items = <<"Event">>

(***************************************************************************)
(* Claims about BufferedArray handles on shared memory, checked under      *)
(* SpecShared.                                                             *)
(***************************************************************************)
\* The step is a call of close.
Closing == sh_last'.op = "close"

C15_WholeBytesOrValueError ==
    rb_made.dtype \in PixelFormats =>
        LET bits == rb_made.shape[1] * rb_made.shape[2] * BitsPerPixel(rb_made.dtype)
        IN  IF bits % 8 = 0
            THEN /\ rb_made.raised = "none"
                 /\ rb_made.nbytes = (rb_made.capacity * bits) \div 8
            ELSE rb_made.raised = "ValueError"

(***************************************************************************)
(* Claims about Peripheral.build_args, checked under SpecBuildArgs.        *)
(***************************************************************************)
\* The classes of the MRO, Peripheral excluded, whose own build methods
\* declare the name.
Declaring(mro, n) ==
    {i \in 1..Len(mro) : /\ mro[i].name # "Peripheral"
                         /\ mro[i].has_build
                         /\ n \in Keys(mro[i].parameters) \ Filtered}

\* C16: when two composed capabilities declare the same build parameter name,
\* build_args fails with a composition error: it never returns a merged set
\* in which one declaration of the name has replaced the other.
C16_SameNameIsCompositionError ==
    build_args.called =>
        \A n \in ParamNames :
            Cardinality(Declaring(build_args.mro, n)) > 1 =>
                build_args.raised = "CompositionError"

(***************************************************************************)
(* Further claims about Core, checked under SpecCore.                      *)
(***************************************************************************)
\* The lock states of the instances name n refers or referred to.
LockOf(n) ==
    [k \in 0..MaxTasks |->
        <<Inst(<<n, k>>).locked, Inst(<<n, k>>).nwait, Inst(<<n, k>>).woken>>]

\* The frames a step adds, removes or changes.
Moved ==
    {f \in BagToSet(tasks) \cup BagToSet(tasks') : CopiesIn(f, tasks) # CopiesIn(f, tasks')}

\* C17: calls on different peripherals are independent.  A step changes the
\* lock state of a peripheral only if it is a step of a call on that
\* peripheral; a call on a peripheral whose lock is free with nobody waiting
\* enters its body at once, whatever the locks of the other peripherals; and
\* a call waits only while its own peripheral's lock is held or being handed
\* over.
C17_OtherLocksUntouched ==
    /\ [][\A n \in Names :
            /\ LockOf(n)' # LockOf(n) => Moved # {} /\ \A f \in Moved : f.pname = n
            /\ \A f \in Moved :
                   (/\ BagCardinality(tasks') > BagCardinality(tasks)
                    /\ On(n, 0, f)
                    /\ ~peripherals[n].locked
                    /\ peripherals[n].nwait = 0) => f.pc = "body"]_vars
    /\ [](\A f \in BagToSet(tasks) : f.pc = "waiting" => Obj(f).locked \/ Obj(f).woken)

\* A call on one peripheral has completed while a setter of the other is
\* suspended inside its body, holding its lock.
C17_Witness ==
    /\ ret.op \in {"get", "set"}
    /\ ret.at = "resume"
    /\ ret.raised = "none"
    /\ \E f \in BagToSet(tasks) :
           /\ f.pc = "body2"
           /\ f.pname # ret.pname
           /\ f.ref = 0
           /\ peripherals[f.pname].locked
           /\ ~peripherals[ret.pname].locked

\* C18: under any interleaving of concurrent build_peripheral calls a bound
\* name is never bound again: a build that resumes from the await of the
\* type's build while its name is registered fails, so of two calls using the
\* same name at most one completes successfully.
C18_BoundNameNeverRebound ==
    [][\A n \in Names :
          (/\ n \in Registered
           /\ tasks' # tasks
           /\ ret'.op = "build"
           /\ ret'.at = "resume"
           /\ ret'.pname = n) =>
              /\ ret'.raised # "none"
              /\ peripherals'[n] = peripherals[n]]_vars

(***************************************************************************)
(* Further claims about BufferedArray.put, checked under SpecBuffer.       *)
(***************************************************************************)
\* C19: the write cursor is always in [0, size) and equals the number of
\* elements put so far modulo the size; each successful put of n elements
\* advances it by n modulo the size; the assertion of the wrap branch never
\* fails.
C19_CursorIsTotalModSize ==
    /\ [](/\ 0 <= arr.write_idx
          /\ arr.write_idx < arr.size
          /\ arr.write_idx = Len(ba_log) % arr.size
          /\ ba_res # "AssertionError")
    /\ [][ba_res' = "ok" =>
             arr'.write_idx = (arr.write_idx + (Len(ba_log') - Len(ba_log))) % arr.size]_vars

\* C19 witness: puts totalling twice the size have brought the cursor of a
\* buffer of several elements back to 0.
C19_Witness ==
    /\ ba_res = "ok"
    /\ arr.size >= 2
    /\ Len(ba_log) = 2 * arr.size
    /\ arr.write_idx = 0

(***************************************************************************)
(* Further claims about shared BufferedArray handles, under SpecShared.    *)
(***************************************************************************)
\* C20: a handle attached with create=False never changes the shared data.
\* A put through it fails and leaves every slot of every segment and every
\* handle, its own cursor included, as they were; the slots of a segment
\* change only by a put through the handle that created it; and an operation
\* on one handle never changes another handle, so never the writer's cursor.
C20_ReadersNeverWrite ==
    [][/\ \A h \in Handles :
            /\ (sh_last'.op = "put" /\ sh_last'.h = h /\ ~handles[h].writeable) =>
                   /\ sh_last'.raised = "ValueError"
                   /\ UNCHANGED <<segments, handles>>
            /\ sh_last'.h = h => \A g \in Handles \ {h} : handles'[g] = handles[g]
       /\ \A n \in SegNames :
            (segments[n].state # "none" /\ segments'[n].slots # segments[n].slots) =>
                /\ sh_last'.op = "put"
                /\ handles[sh_last'.h].writeable
                /\ handles[sh_last'.h].shm = n]_vars

\* C20 witness: a reader's put of data that _validate accepts was rejected,
\* on a segment its writer has written to and whose writer's cursor has moved.
C20_Witness ==
    /\ sh_last.op = "put"
    /\ sh_last.valid
    /\ sh_last.raised = "ValueError"
    /\ handles[sh_last.h].state = "open"
    /\ ~handles[sh_last.h].writeable
    /\ \E g \in Handles :
           /\ handles[g].writeable
           /\ handles[g].state = "open"
           /\ handles[g].shm = handles[sh_last.h].shm
           /\ handles[g].write_idx > 0
           /\ \E j \in DOMAIN segments[handles[g].shm].slots :
                  segments[handles[g].shm].slots[j] # 0

\* The build frames a step removes and the build frames it adds.
BuildsLeft == {f \in Moved : f.op = "build" /\ CopiesIn(f, tasks) > CopiesIn(f, tasks')}
BuildsEntered == {f \in Moved : f.op = "build" /\ CopiesIn(f, tasks') > CopiesIn(f, tasks)}

\* C21: during a build the state of the peripheral only moves forward,
\* PREINIT -> INIT -> RUNNING, one step at a time: a build starts in PREINIT,
\* each of its steps raises the state by one, and when build_peripheral
\* returns without error the state has gone from INIT to RUNNING (when it
\* raises, the state is as it was).  Every peripheral in Core.peripherals is
\* RUNNING with its buffer allocated.
C21_RegisteredAreRunning ==
    /\ [](\A n \in Registered :
             /\ peripherals[n].state = "RUNNING"
             /\ peripherals[n].buffer # <<>>)
    /\ [][/\ \A g \in BuildsEntered :
                IF BuildsLeft = {}
                THEN Building(g).state = "PREINIT"
                ELSE \A f \in BuildsLeft :
                        StateValue(Building(g).state) = StateValue(Building(f).state) + 1
          /\ \A f \in BuildsLeft :
                BuildsEntered = {} =>
                    /\ ret'.op = "build" /\ ret'.at = "resume"
                    /\ StateValue(ret'.state) =
                           StateValue(Building(f).state) + (IF ret'.raised = "none" THEN 1 ELSE 0)
                    /\ ret'.raised = "none" =>
                           /\ ret'.state = "RUNNING"
                           /\ peripherals'[f.pname].state = "RUNNING"
                           /\ peripherals'[f.pname].buffer # <<>>]_vars

\* C21 witness: a build has returned and its peripheral is registered,
\* RUNNING with its buffer, while the peripheral of another build, suspended
\* in INIT, is not in the registry.
C21_Witness ==
    /\ ret.op = "build"
    /\ ret.at = "resume"
    /\ ret.raised = "none"
    /\ ret.state = "RUNNING"
    /\ ret.pname \in Registered
    /\ peripherals[ret.pname].buffer # <<>>
    /\ \E f \in BagToSet(tasks) :
           /\ f.op = "build"
           /\ Building(f).state = "INIT"
           /\ f.pname \notin Registered

(***************************************************************************)
(* Further claims about the event handler, checked under SpecEvents.       *)
(***************************************************************************)
\* C22: the event handler acknowledges every event it takes from the queue,
\* one task_done per get: the unfinished tasks are the events still in the
\* queue and the one being handled, so once the handler has exited and no
\* event is left in the queue the count of unfinished tasks is zero and
\* event_queue.join() returns.
C22_EveryEventAcknowledged ==
    /\ event_queue.unfinished_tasks =
           Len(event_queue.items) + (IF event_thread.pc = "match" THEN 1 ELSE 0)
    /\ (event_thread.pc = "exited" /\ event_queue.items = <<>>) =>
           event_queue.unfinished_tasks = 0
====
